---- MODULE Spec2Model ----
(***************************************************************************)
(* Model of chaos-collector.py: the ChaosCollector pipeline (run), the     *)
(* thread pool of download_datasets, the per-task steps of download_file   *)
(* and the resume ledger (downloaded_urls.txt).                            *)
(*                                                                         *)
(* Strings are sequences of tokens; a token is a run of characters that    *)
(* the code never splits ("/", ".zip", a name, a blank, a newline).        *)
(***************************************************************************)
EXTENDS Integers, Sequences, FiniteSets, TLC

VARIABLES
    args,           \* argparse namespace: resume, cleanup, dry_run
    config,         \* self.config: parallel_downloads, max_retries
    pc,             \* position of the main thread in main()/run()
    index_data,     \* value returned by download_index
    urls,           \* task list returned by extract_urls
    loaded,         \* the set `downloaded` read from the resume file
    st,             \* per task: position of its download_file call
    calls,          \* per task: number of download_file calls started
    body,           \* per task: what its call has written of the response body
    sub,            \* number of tasks submitted to the executor
    res,            \* number of futures whose result was consumed
    stats,          \* CollectionStats counters
    resume_exists,  \* downloaded_urls.txt exists
    resume_file,    \* content of downloaded_urls.txt
    downloads,      \* temp_dir/downloads: state of the file of each name
    temp_dir,       \* the working directory exists
    log,            \* kinds of messages logged so far
    artifacts,      \* files of output_dir created or modified by this run
    extracted,      \* temp_dir/extracted: names of the archives extracted
    exit_status,    \* process exit status, "none" while running
    interrupted,    \* a KeyboardInterrupt was raised in the main thread
    txt_files,      \* temp_dir/extracted: the text file of each archive, as lines
    domains,        \* the set returned by process_domains
    reports,        \* content of the report files of output_dir
    attempts,       \* per task: HTTP requests its call has sent
    outcome,        \* per task: how the last request of its call failed
    skipped         \* archives extract_archives gave up on with a warning

vars == <<args, config, pc, index_data, urls, loaded, st, calls, body, sub, res,
          stats, resume_exists, resume_file, downloads, temp_dir, log,
          artifacts, extracted, exit_status, interrupted, txt_files, domains,
          reports, attempts, outcome, skipped>>

----------------------------------------------------------------------------
(* Bounds *)

MaxIndex == 2
MaxPrior == 1
MaxParallel == 2
MaxDomains == 3
MaxRetries == 1

----------------------------------------------------------------------------
(* Strings *)

NL == "\n"
SP == " "
Whitespace == {SP, NL}

U1 == <<"/", "a", ".zip">>
U2 == <<"/", "b", ".zip">>
U3 == <<"/", "a", ".zip", SP>>
\* the URLs the index may list
Urls == {U1, U2}

\* the URLs earlier runs may have recorded
LedgerUrls == Urls \cup {U3}

\* an index entry: an object with or without a 'URL' key
IndexEntries ==
    {[has |-> TRUE, URL |-> u] : u \in Urls \cup {<<>>}}
        \cup {[has |-> FALSE, URL |-> <<>>]}

BoundedSeq(S, n) == UNION {[1..k -> S] : k \in 0..n}

RECURSIVE LStrip(_)
LStrip(s) ==
    IF s = <<>> THEN <<>>
    ELSE IF Head(s) \in Whitespace THEN LStrip(Tail(s)) ELSE s

RECURSIVE RStrip(_)
RStrip(s) ==
    IF s = <<>> THEN <<>>
    ELSE IF s[Len(s)] \in Whitespace THEN RStrip(SubSeq(s, 1, Len(s) - 1))
         ELSE s

\* str.strip()
Strip(s) == RStrip(LStrip(s))

\* iteration over a text file: each line keeps its terminating newline
RECURSIVE FileLines(_, _)
FileLines(f, cur) ==
    IF f = <<>> THEN (IF cur = <<>> THEN <<>> ELSE <<cur>>)
    ELSE IF Head(f) = NL
         THEN <<Append(cur, NL)>> \o FileLines(Tail(f), <<>>)
         ELSE FileLines(Tail(f), Append(cur, Head(f)))

RECURSIVE Concat(_)
Concat(ss) == IF ss = <<>> THEN <<>> ELSE Head(ss) \o Concat(Tail(ss))

Range(s) == {s[i] : i \in 1..Len(s)}

\* Path(urlparse(url).path).name: the last path segment
RECURSIVE Filename(_)
Filename(url) ==
    IF url = <<>> THEN <<>>
    ELSE IF \E i \in 1..Len(url) : url[i] = "/"
         THEN Filename(Tail(url))
         ELSE url

Filenames == {Filename(u) : u \in Urls}

----------------------------------------------------------------------------
(* Domain names: DomainValidator.  A label is one token, "." separates *)

DOT == "."

\* labels made of letters only, of two letters or more
LetterLabels == {"foo", "bar", "com", "org", "example", "test"}

\* labels that are a decimal number up to 255
OctetLabels == {"1"}

\* str.lower, token by token
LowerToken(t) == IF t = "FOO" THEN "foo" ELSE t

Lower(s) == [i \in 1..Len(s) |-> LowerToken(s[i])]

\* str.split('.'): the pieces between the dots, each a run of tokens
RECURSIVE SplitDots(_, _)
SplitDots(s, cur) ==
    IF s = <<>> THEN <<cur>>
    ELSE IF Head(s) = DOT
         THEN <<cur>> \o SplitDots(Tail(s), <<>>)
         ELSE SplitDots(Tail(s), Append(cur, Head(s)))

Parts(s) == SplitDots(s, <<>>)

\* IP_REGEX: four octets
MatchesIp(s) ==
    LET parts == Parts(s)
    IN /\ Len(parts) = 4
       /\ \A i \in 1..4 : Len(parts[i]) = 1 /\ parts[i][1] \in OctetLabels

\* DOMAIN_REGEX: one or more host labels, each followed by a dot, then a
\* label of two or more letters
MatchesDomain(s) ==
    LET parts == Parts(s)
        n == Len(parts)
    IN /\ n >= 2
       /\ \A i \in 1..n : Len(parts[i]) = 1
       /\ \A i \in 1..(n - 1) : parts[i][1] \in LetterLabels \cup OctetLabels
       /\ parts[n][1] \in LetterLabels

\* `pattern in domain`
HasInfix(s, p) ==
    \E i \in 0..(Len(s) - Len(p)) : \A k \in 1..Len(p) : s[i + k] = p[k]

invalid_patterns ==
    {<<"example", DOT, "com">>, <<"example", DOT, "org">>,
     <<"test", DOT, "com">>, <<"localhost">>, <<"localdomain">>, <<"invalid">>}

is_valid_domain(raw) ==
    LET domain == Lower(Strip(raw))
    IN /\ domain # <<>>
       /\ ~MatchesIp(domain)
       /\ MatchesDomain(domain)
       /\ ~\E p \in invalid_patterns : HasInfix(domain, p)

extract_tld(domain) ==
    LET parts == Parts(domain)
    IN IF Len(parts) >= 2 THEN parts[Len(parts)] ELSE <<>>

extract_domain(domain) ==
    LET parts == Parts(domain)
    IN IF Len(parts) >= 2
       THEN parts[Len(parts) - 1] \o <<DOT>> \o parts[Len(parts)]
       ELSE domain

FooCom == <<"foo", DOT, "com">>

\* the text file an archive of the server holds: no line, or the line foo.com
ArchiveTexts == {<<>>, <<Append(FooCom, NL)>>}

\* temp_dir/extracted holds no text file
NoFiles == [n \in {} |-> <<>>]

\* no report file has been written
NoReports == [main |-> <<>>, tld |-> <<>>, domain |-> <<>>, wildcard |-> <<>>,
              summary |-> <<>>]

\* the orders in which the elements of a set can be visited
Orders(S) == {s \in [1..Cardinality(S) -> S] : Range(s) = S}

\* the tokens by the code points of their text; no token is a prefix of
\* another, so comparing strings token by token is comparing them by character
TokensInOrder == <<"*", DOT, "1", "FOO", "bar", "com", "example", "foo", "org", "test">>

TokenRank(t) == CHOOSE i \in 1..Len(TokensInOrder) : TokensInOrder[i] = t

\* a < b for str
RECURSIVE StrLess(_, _)
StrLess(a, b) ==
    IF b = <<>> THEN FALSE
    ELSE IF a = <<>> THEN TRUE
    ELSE IF Head(a) = Head(b) THEN StrLess(Tail(a), Tail(b))
    ELSE TokenRank(Head(a)) < TokenRank(Head(b))

\* sorted(S) of a set of str
Sorted(S) ==
    CHOOSE s \in Orders(S) : \A i, j \in 1..Len(s) : i < j => StrLess(s[i], s[j])

\* the items of the dict built by `d[k] = d.get(k, 0) + 1` over keys, in
\* insertion order: each key where it first occurs, with its count
DictItems(keys) ==
    LET F[i \in 0..Len(keys)] ==
            IF i = 0 THEN <<>>
            ELSE IF \E j \in 1..(i - 1) : keys[j] = keys[i]
                 THEN F[i - 1]
                 ELSE Append(F[i - 1],
                             <<keys[i],
                               Cardinality({j \in 1..Len(keys) : keys[j] = keys[i]})>>)
    IN F[Len(keys)]

\* x put into a sequence sorted by descending count, behind the items of
\* the same count
InsertByCount(sorted, x) ==
    LET before == SelectSeq(sorted, LAMBDA y : y[2] >= x[2])
        after == SelectSeq(sorted, LAMBDA y : y[2] < x[2])
    IN before \o <<x>> \o after

\* sorted(items, key=lambda x: x[1], reverse=True): a stable sort, items of
\* equal count stay in the order they had
RECURSIVE SortedByCount(_)
SortedByCount(items) ==
    IF items = <<>> THEN <<>>
    ELSE InsertByCount(SortedByCount(SubSeq(items, 1, Len(items) - 1)),
                       items[Len(items)])

\* the rows "count key" of a distribution file
Rows(items) == [i \in 1..Len(items) |-> <<items[i][2], items[i][1]>>]

\* tld_distribution.txt when the set is iterated in the given order
TldRows(order) ==
    Rows(SortedByCount(DictItems([i \in 1..Len(order) |-> extract_tld(order[i])])))

\* domain_distribution.txt when the set is iterated in the given order
DomainRows(order) ==
    Rows(SortedByCount(DictItems([i \in 1..Len(order) |-> extract_domain(order[i])])))

\* wildcard_patterns.txt
WildcardLines(ds) == Sorted({<<"*", DOT>> \o extract_domain(d) : d \in ds})

----------------------------------------------------------------------------
(* State after main() has built the collector: ChaosCollector.__init__ *)

LedgerLine(url) == Append(url, NL)

\* what earlier runs left in downloaded_urls.txt: one "url\n" per success.
\* A run without --resume never reads the file: one content stands for all.
PriorLedgers(resume) ==
    IF resume
    THEN {Concat([i \in 1..Len(p) |-> LedgerLine(p[i])]) :
             p \in BoundedSeq(LedgerUrls, MaxPrior)}
    ELSE {LedgerLine(U1)}

\* a working directory that still holds the archives of earlier runs
ReusedDir == [n \in Filenames |-> "complete"]

\* tempfile.mkdtemp: a new, empty directory for every run
FreshDir == [n \in Filenames |-> "none"]

\* "max_retries" of default_config
DefaultMaxRetries == 3

\* the attributes parse_arguments gives the namespace that run() reads
ArgNamespaces ==
    [resume : BOOLEAN, cleanup : BOOLEAN, dry_run : BOOLEAN,
     validate : {TRUE}, compress : {TRUE}]

Init ==
    /\ args \in ArgNamespaces
    /\ config \in [parallel_downloads : 1..MaxParallel,
                   max_retries : {DefaultMaxRetries}]
    /\ pc = "banner"
    /\ index_data = <<>>
    /\ urls = <<>>
    /\ loaded = {}
    /\ st = <<>>
    /\ calls = <<>>
    /\ body = <<>>
    /\ sub = 0
    /\ res = 0
    /\ stats = [total_urls |-> 0, downloaded |-> 0, failed |-> 0,
                extracted |-> 0, total_domains |-> 0, duplicates_removed |-> 0]
    /\ resume_exists \in BOOLEAN
    /\ resume_file \in (IF resume_exists THEN PriorLedgers(args.resume) ELSE {<<>>})
    /\ downloads = FreshDir
    /\ temp_dir = TRUE
    /\ log = {}
    /\ artifacts = {"log"}
    /\ extracted = {}
    /\ exit_status = "none"
    /\ interrupted = FALSE
    /\ txt_files = NoFiles
    /\ domains = {}
    /\ reports = NoReports
    /\ attempts = <<>>
    /\ outcome = <<>>
    /\ skipped = {}

----------------------------------------------------------------------------
(* Helpers of the pipeline *)

\* a dry-run flag that is never looked at
DryRunIgnored == FALSE

\* `if self.args.dry_run` of download_index and download_datasets
DryRun == args.dry_run

\* ChaosCollector.cleanup: the state of temp_dir after the call
CleanupDir(td) == IF args.cleanup THEN FALSE ELSE td

CleanupLog == IF args.cleanup THEN "cleaning_up" ELSE "temp_kept"

\* the URLs collected by the loop of extract_urls
RECURSIVE IndexUrls(_)
IndexUrls(idx) ==
    IF idx = <<>> THEN <<>>
    ELSE IF Head(idx).has /\ Head(idx).URL # <<>>
         THEN <<Head(idx).URL>> \o IndexUrls(Tail(idx))
         ELSE IndexUrls(Tail(idx))

\* the lines of the file taken as they are read, newline included
LoadLedgerRaw(f) == Range(FileLines(f, <<>>))

\* set(line.strip() for line in f)
LoadLedger(f) == {Strip(l) : l \in Range(FileLines(f, <<>>))}

NotDownloaded(u) == u \notin LoadLedger(resume_file)

\* the list comprehension of extract_urls
ResumeFilter(us) == SelectSeq(us, NotDownloaded)

Finished(i) == st[i] \in {"ok", "failed"}

InFlight == {i \in 1..Len(st) : st[i] \in {"request", "attempt_failed", "streaming",
                                           "written", "ledger"}}

\* the executor's work queue is FIFO: the next work item is the oldest one
QueueHead(i) == st[i] = "queued" /\ \A j \in 1..(i - 1) : st[j] # "queued"

\* a pool that starts a thread for every work item
WorkerAlwaysFree == TRUE

\* a worker thread is free to take a work item
WorkerFree == Cardinality(InFlight) < config.parallel_downloads

----------------------------------------------------------------------------
(* Main thread: ChaosCollector.run *)

\* run, before its try block: _print_banner and stats.start_time
Banner ==
    /\ pc = "banner"
    /\ pc' = "download_index"
    /\ log' = IF args.resume THEN log \cup {"resume_mode"} ELSE log
    /\ UNCHANGED <<args, config, index_data, urls, loaded, st, calls, body, sub, res,
                   stats, resume_exists, resume_file, downloads, temp_dir,
                   artifacts, extracted, exit_status, interrupted,
                   txt_files, domains, reports, attempts, outcome, skipped>>

\* download_index in dry-run mode: no request, returns {}
DownloadIndexDryRun ==
    /\ pc = "download_index"
    /\ DryRun
    /\ index_data' = <<>>
    /\ log' = log \cup {"downloading_index", "dry_run_index"}
    /\ pc' = "extract_urls"
    /\ UNCHANGED <<args, config, urls, loaded, st, calls, body, sub, res, stats,
                   resume_exists, resume_file, downloads, temp_dir, artifacts,
                   extracted, exit_status, interrupted,
                   txt_files, domains, reports, attempts, outcome, skipped>>

\* download_index: the request succeeds and the body parses as JSON
DownloadIndexOk ==
    /\ pc = "download_index"
    /\ ~DryRun
    /\ \E idx \in BoundedSeq(IndexEntries, MaxIndex) : index_data' = idx
    /\ log' = log \cup {"downloading_index", "index_downloaded"}
    /\ pc' = "extract_urls"
    /\ UNCHANGED <<args, config, urls, loaded, st, calls, body, sub, res, stats,
                   resume_exists, resume_file, downloads, temp_dir, artifacts,
                   extracted, exit_status, interrupted,
                   txt_files, domains, reports, attempts, outcome, skipped>>

\* download_index: the request, raise_for_status or json() raises; re-raised
DownloadIndexFail ==
    /\ pc = "download_index"
    /\ ~DryRun
    /\ log' = log \cup {"downloading_index", "index_failed"}
    /\ pc' = "exc_handler"
    /\ UNCHANGED <<args, config, index_data, urls, loaded, st, calls, body, sub, res,
                   stats, resume_exists, resume_file, downloads, temp_dir,
                   artifacts, extracted, exit_status, interrupted,
                   txt_files, domains, reports, attempts, outcome, skipped>>

\* extract_urls
ExtractUrls ==
    /\ pc = "extract_urls"
    /\ LET found == IndexUrls(index_data)
           resuming == args.resume /\ resume_exists
       IN /\ stats' = [stats EXCEPT !.total_urls = Len(found)]
          /\ loaded' = IF resuming THEN LoadLedger(resume_file) ELSE loaded
          /\ urls' = IF resuming THEN ResumeFilter(found) ELSE found
          /\ log' = log \cup {"found_urls"}
                        \cup (IF resuming THEN {"resuming"} ELSE {})
    /\ pc' = "check_urls"
    /\ UNCHANGED <<args, config, index_data, st, calls, body, sub, res,
                   resume_exists, resume_file, downloads, temp_dir, artifacts,
                   extracted, exit_status, interrupted,
                   txt_files, domains, reports, attempts, outcome, skipped>>

\* a test that an empty list does not pass
NoTasksIsNone(us) == FALSE

\* `not urls`
NoTasks(us) == us = <<>>

\* run: `if not urls`: warn and return; main() returns, the process exits 0
NoUrls ==
    /\ pc = "check_urls"
    /\ NoTasks(urls)
    /\ log' = log \cup {"no_urls"}
    /\ pc' = "exited"
    /\ exit_status' = "0"
    /\ UNCHANGED <<args, config, index_data, urls, loaded, st, calls, body, sub, res,
                   stats, resume_exists, resume_file, downloads, temp_dir,
                   artifacts, extracted, interrupted,
                   txt_files, domains, reports, attempts, outcome, skipped>>

\* download_datasets up to the creation of the executor
DownloadDatasets ==
    /\ pc = "check_urls"
    /\ ~NoTasks(urls)
    /\ log' = log \cup {"downloading_datasets"}
                  \cup (IF DryRun THEN {"dry_run_download"} ELSE {})
    /\ IF DryRun
       THEN /\ pc' = "extract_archives"
            /\ UNCHANGED <<st, calls, body, attempts, outcome>>
       ELSE /\ pc' = "submit"
            /\ st' = [i \in 1..Len(urls) |-> "new"]
            /\ calls' = [i \in 1..Len(urls) |-> 0]
            /\ body' = [i \in 1..Len(urls) |-> "none"]
            /\ attempts' = [i \in 1..Len(urls) |-> 0]
            /\ outcome' = [i \in 1..Len(urls) |-> "none"]
    /\ UNCHANGED <<args, config, index_data, urls, loaded, sub, res, stats,
                   resume_exists, resume_file, downloads, temp_dir, artifacts,
                   extracted, exit_status, interrupted,
                   txt_files, domains, reports, skipped>>

\* executor.submit(self.download_file, url, output_path), one task per step
Submit ==
    /\ pc = "submit"
    /\ sub < Len(urls)
    /\ st' = [st EXCEPT ![sub + 1] = "queued"]
    /\ sub' = sub + 1
    /\ pc' = IF sub + 1 = Len(urls) THEN "results" ELSE "submit"
    /\ UNCHANGED <<args, config, index_data, urls, loaded, calls, body, res, stats,
                   resume_exists, resume_file, downloads, temp_dir, log,
                   artifacts, extracted, exit_status, interrupted,
                   txt_files, domains, reports, attempts, outcome, skipped>>

\* counters that drop the failures
CountSuccessOnly(s, success) ==
    IF success THEN [s EXCEPT !.downloaded = @ + 1] ELSE s

\* the counters after future.result() returned `success`
CountResult(s, success) ==
    IF success THEN [s EXCEPT !.downloaded = @ + 1]
               ELSE [s EXCEPT !.failed = @ + 1]

\* a result read without waiting for the call
ResultNoWait == TRUE

\* future.result() blocks until the call of the future has returned
ResultReady == Finished(res + 1)

\* future.result() of the next future, in submission order
Result ==
    /\ pc = "results"
    /\ res < Len(urls)
    /\ ResultReady
    /\ stats' = CountResult(stats, st[res + 1] = "ok")
    /\ res' = res + 1
    /\ UNCHANGED <<args, config, pc, index_data, urls, loaded, st, calls, body, sub,
                   resume_exists, resume_file, downloads, temp_dir, log,
                   artifacts, extracted, exit_status, interrupted,
                   txt_files, domains, reports, attempts, outcome, skipped>>

\* the with block is left: shutdown(wait=True), then "Downloads completed"
DownloadsCompleted ==
    /\ pc = "results"
    /\ res = Len(urls)
    /\ \A i \in 1..sub : Finished(i)
    /\ log' = log \cup {"downloads_completed"}
    /\ pc' = "extract_archives"
    /\ UNCHANGED <<args, config, index_data, urls, loaded, st, calls, body, sub, res,
                   stats, resume_exists, resume_file, downloads, temp_dir,
                   artifacts, extracted, exit_status, interrupted,
                   txt_files, domains, reports, attempts, outcome, skipped>>

----------------------------------------------------------------------------
(* Worker threads: ChaosCollector.download_file *)

\* a worker takes the oldest work item and calls download_file: session.get
StartDownload(i) ==
    /\ QueueHead(i)
    /\ WorkerFree
    /\ st' = [st EXCEPT ![i] = "request"]
    /\ calls' = [calls EXCEPT ![i] = @ + 1]
    /\ attempts' = [attempts EXCEPT ![i] = 1]
    /\ UNCHANGED <<body, args, config, pc, index_data, urls, loaded, sub, res, stats,
                   resume_exists, resume_file, downloads, temp_dir, log,
                   artifacts, extracted, exit_status, interrupted,
                   txt_files, domains, reports, outcome, skipped>>

\* the response is 2xx: open(output_path, 'wb') creates or truncates the file
ResponseOk(i) ==
    /\ st[i] = "request"
    /\ st' = [st EXCEPT ![i] = "streaming"]
    /\ body' = [body EXCEPT ![i] = "partial"]
    /\ downloads' = [downloads EXCEPT ![Filename(urls[i])] = "partial"]
    /\ UNCHANGED <<args, config, pc, index_data, urls, loaded, calls, sub, res,
                   stats, resume_exists, resume_file, temp_dir, log, artifacts,
                   extracted, exit_status, interrupted,
                   txt_files, domains, reports, attempts, outcome, skipped>>

\* a failed request that puts its task back on the work queue
RequeueOnFailure == "queued"

\* the except clause returns False: the call is over
AfterRequestFailure == "failed"

\* session.get or raise_for_status raises (status, retries exhausted,
\* connection error, timeout): warning, return False.  The requests that
\* session.get sends before it raises are one step here; AttemptFails,
\* RetryRequest and GiveUp spell them out.
RequestFail(i) ==
    /\ st[i] = "request"
    /\ st' = [st EXCEPT ![i] = AfterRequestFailure]
    /\ log' = log \cup {"download_failed"}
    /\ UNCHANGED <<args, config, pc, index_data, urls, loaded, calls, body, sub, res,
                   stats, resume_exists, resume_file, downloads, temp_dir,
                   artifacts, extracted, exit_status, interrupted,
                   txt_files, domains, reports, attempts, outcome, skipped>>

\* Retry(status_forcelist=[429, 500, 502, 503, 504])
status_forcelist == {"429", "500", "502", "503", "504"}

\* the ways a request of session.get fails here: a status that
\* raise_for_status rejects, a status of the force list, a 413 that names a
\* Retry-After delay, or no response at all (connection error, timeout)
FailedOutcomes == {"404", "503", "413 Retry-After", "connection"}

\* what the Retry object of the session's adapter retries a GET after: a
\* connection-level failure, a status of its force list, and (Retry-After is
\* respected unless the Retry says otherwise) a 413 with a Retry-After header
Retryable(o) == o \in status_forcelist \cup {"connection", "413 Retry-After"}

\* a Retry that never runs out
RetriesUnlimited(i) == TRUE

\* Retry(total=max_retries): every retry takes one off the total, and the
\* request is given up when the total would fall below zero
RetriesLeft(i) == attempts[i] - 1 < config.max_retries

\* a request of session.get fails
AttemptFails(i) ==
    /\ st[i] = "request"
    /\ \E o \in FailedOutcomes : outcome' = [outcome EXCEPT ![i] = o]
    /\ st' = [st EXCEPT ![i] = "attempt_failed"]
    /\ UNCHANGED <<args, config, pc, index_data, urls, loaded, calls, body, sub, res,
                   stats, resume_exists, resume_file, downloads, temp_dir, log,
                   artifacts, extracted, exit_status, interrupted,
                   txt_files, domains, reports, attempts, skipped>>

\* the adapter sleeps for the backoff time and sends the request again
RetryRequest(i) ==
    /\ st[i] = "attempt_failed"
    /\ Retryable(outcome[i])
    /\ RetriesLeft(i)
    /\ st' = [st EXCEPT ![i] = "request"]
    /\ attempts' = [attempts EXCEPT ![i] = @ + 1]
    /\ outcome' = [outcome EXCEPT ![i] = "none"]
    /\ UNCHANGED <<args, config, pc, index_data, urls, loaded, calls, body, sub, res,
                   stats, resume_exists, resume_file, downloads, temp_dir, log,
                   artifacts, extracted, exit_status, interrupted,
                   txt_files, domains, reports, skipped>>

\* session.get raises (retries exhausted) or raise_for_status raises (a
\* status that is not retried): warning, return False
GiveUp(i) ==
    /\ st[i] = "attempt_failed"
    /\ ~(Retryable(outcome[i]) /\ RetriesLeft(i))
    /\ st' = [st EXCEPT ![i] = AfterRequestFailure]
    /\ outcome' = [outcome EXCEPT ![i] = "none"]
    /\ log' = log \cup {"download_failed"}
    /\ UNCHANGED <<args, config, pc, index_data, urls, loaded, calls, body, sub, res,
                   stats, resume_exists, resume_file, downloads, temp_dir,
                   artifacts, extracted, exit_status, interrupted,
                   txt_files, domains, reports, attempts, skipped>>

\* iter_content is exhausted: the whole body is on disk, the file is closed
StreamDone(i) ==
    /\ st[i] = "streaming"
    /\ st' = [st EXCEPT ![i] = "written"]
    /\ body' = [body EXCEPT ![i] = "complete"]
    /\ downloads' = [downloads EXCEPT ![Filename(urls[i])] = "complete"]
    /\ UNCHANGED <<args, config, pc, index_data, urls, loaded, calls, sub, res,
                   stats, resume_exists, resume_file, temp_dir, log, artifacts,
                   extracted, exit_status, interrupted,
                   txt_files, domains, reports, attempts, outcome, skipped>>

\* iter_content or f.write raises part-way: the truncated file stays
StreamFail(i) ==
    /\ st[i] = "streaming"
    /\ st' = [st EXCEPT ![i] = "failed"]
    /\ log' = log \cup {"download_failed"}
    /\ UNCHANGED <<args, config, pc, index_data, urls, loaded, calls, body, sub, res,
                   stats, resume_exists, resume_file, downloads, temp_dir,
                   artifacts, extracted, exit_status, interrupted,
                   txt_files, domains, reports, attempts, outcome, skipped>>

\* recording the URL as soon as the destination file is open
RecordsEarly(i) == st[i] \in {"streaming", "written"}

\* the with block that streams the body has been left without an exception
ReadyToRecord(i) == st[i] = "written"

\* open(self.resume_file, 'a'): creates the ledger when it is absent
LedgerOpen(i) ==
    /\ ReadyToRecord(i)
    /\ st' = [st EXCEPT ![i] = "ledger"]
    /\ resume_exists' = TRUE
    /\ artifacts' = artifacts \cup {"downloaded_urls.txt"}
    /\ UNCHANGED <<args, config, pc, index_data, urls, loaded, calls, body, sub, res,
                   stats, resume_file, downloads, temp_dir, log, extracted,
                   exit_status, interrupted,
                   txt_files, domains, reports, attempts, outcome, skipped>>

\* f.write(url + "\n") and the close that flushes it; return True
LedgerWrite(i) ==
    /\ st[i] = "ledger"
    /\ st' = [st EXCEPT ![i] = "ok"]
    /\ resume_file' = resume_file \o LedgerLine(urls[i])
    /\ UNCHANGED <<args, config, pc, index_data, urls, loaded, calls, body, sub, res,
                   stats, resume_exists, downloads, temp_dir, log, artifacts,
                   extracted, exit_status, interrupted,
                   txt_files, domains, reports, attempts, outcome, skipped>>

----------------------------------------------------------------------------
(* Main thread: the stages after the downloads *)

\* download_dir.glob("*.zip")
IsZipName(n) == n # <<>> /\ n[Len(n)] = ".zip"

ZipFiles == {n \in Filenames : downloads[n] # "none" /\ IsZipName(n)}

\* a count of the archives that were tried
CountAttempted(zips, good) == Cardinality(zips)

\* `self.stats.extracted += 1` after extractall returned
CountExtracted(zips, good) == Cardinality(good)

\* extract_archives: a truncated file is no zip archive; a complete one is
\* extracted unless what the server sent is corrupted.  An archive that
\* raises is logged as a warning and the loop goes on.
ExtractArchives ==
    /\ pc = "extract_archives"
    /\ \E good \in SUBSET {n \in ZipFiles : downloads[n] = "complete"} :
          /\ extracted' = good
          /\ skipped' = ZipFiles \ good
          /\ txt_files' \in [good -> ArchiveTexts]
          /\ stats' = [stats EXCEPT !.extracted = @ + CountExtracted(ZipFiles, good)]
          /\ log' = log \cup {"extracting", "extracted_count"}
                        \cup (IF good # ZipFiles THEN {"extract_failed"} ELSE {})
    /\ pc' = "process_domains"
    /\ UNCHANGED <<args, config, index_data, urls, loaded, st, calls, body, sub, res,
                   resume_exists, resume_file, downloads, temp_dir, artifacts,
                   exit_status, interrupted, domains, reports, attempts, outcome>>

\* the `for line in f` loop of process_domains on one file: the set after
\* the loop, and whether a line raised.  Reading an attribute the namespace
\* does not have raises AttributeError.
RECURSIVE CollectLines(_, _, _)
CollectLines(lines, ns, acc) ==
    IF lines = <<>> THEN [set |-> acc, raised |-> FALSE]
    ELSE LET domain == Strip(Head(lines))
         IN IF "validate_domains" \notin DOMAIN ns
            THEN [set |-> acc, raised |-> TRUE]
            ELSE IF ns.validate_domains
                 THEN CollectLines(Tail(lines), ns,
                                   IF is_valid_domain(domain)
                                   THEN acc \cup {domain} ELSE acc)
                 ELSE CollectLines(Tail(lines), ns, acc \cup {domain})

\* the `for txt_file in extract_dir.rglob("*.txt")` loop: a file whose loop
\* raises is logged as a warning and the next file is read
RECURSIVE CollectFiles(_, _, _, _)
CollectFiles(files, ns, acc, warned) ==
    IF files = <<>> THEN [set |-> acc, warned |-> warned]
    ELSE LET r == CollectLines(Head(files), ns, acc)
         IN CollectFiles(Tail(files), ns, r.set, warned \/ r.raised)

\* reports are generated whatever was collected
ReportsAlways(all_domains) == "generate_reports"

\* `if domains:` of run
AfterAggregation(all_domains) ==
    IF all_domains # {} THEN "generate_reports" ELSE "cleanup"

\* process_domains and the `if domains` of run.  The namespace has no
\* attribute validate_domains (parse_arguments names it validate), so the
\* first line of every text file raises AttributeError inside the try of the
\* file loop: the file is skipped with a warning and no domain is collected.
ProcessDomains ==
    /\ pc = "process_domains"
    /\ \E order \in Orders(DOMAIN txt_files) :
          LET files == [k \in 1..Len(order) |-> txt_files[order[k]]]
              r == CollectFiles(files, args, {}, FALSE)
              all_domains == r.set
              before_count == Cardinality(all_domains)
              unique_domains == Sorted(all_domains)
              after_count == Len(unique_domains)
          IN /\ stats' = [stats EXCEPT !.duplicates_removed = before_count - after_count,
                                       !.total_domains = after_count]
             /\ domains' = Range(unique_domains)
             /\ log' = log \cup {"processing_domains", "processed_count"}
                           \cup (IF r.warned THEN {"error_reading"} ELSE {})
             /\ pc' = AfterAggregation(Range(unique_domains))
    /\ UNCHANGED <<args, config, index_data, urls, loaded, st, calls, body, sub, res,
                   resume_exists, resume_file, downloads, temp_dir, artifacts,
                   extracted, exit_status, interrupted, txt_files, reports,
                   attempts, outcome, skipped>>

ReportFiles == {"aggregated_domains.txt", "tld_distribution.txt",
                "domain_distribution.txt", "wildcard_patterns.txt",
                "collection_summary.json"}

\* generate_reports and _generate_summary.  The set is iterated in whatever
\* order its hash table gives, the same in every loop of one call.
GenerateReports ==
    /\ pc = "generate_reports"
    /\ \E order \in Orders(domains) :
          reports' = [main |-> Sorted(domains),
                      tld |-> TldRows(order),
                      domain |-> DomainRows(order),
                      wildcard |-> WildcardLines(domains),
                      summary |-> <<[total_domains |-> stats.total_domains,
                                     unique_domains |-> stats.total_domains,
                                     duplicates_removed |-> stats.duplicates_removed,
                                     datasets_downloaded |-> stats.downloaded,
                                     datasets_failed |-> stats.failed,
                                     archives_extracted |-> stats.extracted]>>]
    /\ artifacts' = artifacts \cup ReportFiles
    /\ log' = log \cup {"generating_reports"}
    /\ pc' = "compress_output"
    /\ UNCHANGED <<args, config, index_data, urls, loaded, st, calls, body, sub, res,
                   stats, resume_exists, resume_file, downloads, temp_dir,
                   extracted, exit_status, interrupted, txt_files, domains,
                   attempts, outcome, skipped>>

\* compress_output.  The namespace has no attribute enable_compression
\* (parse_arguments names it compress): the first statement raises
\* AttributeError, which the `except Exception` of run receives.
CompressOutput ==
    /\ pc = "compress_output"
    /\ IF "enable_compression" \notin DOMAIN args
       THEN /\ pc' = "exc_handler"
            /\ UNCHANGED <<artifacts, log>>
       ELSE IF ~args.enable_compression
            THEN /\ pc' = "cleanup"
                 /\ UNCHANGED <<artifacts, log>>
            ELSE /\ pc' = "cleanup"
                 /\ artifacts' = artifacts \cup {"chaos_data.tar.gz"}
                 /\ log' = log \cup {"compressing", "archive_created"}
    /\ UNCHANGED <<args, config, index_data, urls, loaded, st, calls, body, sub, res,
                   stats, resume_exists, resume_file, downloads, temp_dir,
                   extracted, exit_status, interrupted, txt_files, domains,
                   reports, attempts, outcome, skipped>>

\* cleanup() at the end of the try block
Cleanup ==
    /\ pc = "cleanup"
    /\ temp_dir' = CleanupDir(temp_dir)
    /\ downloads' = IF args.cleanup THEN [n \in Filenames |-> "none"] ELSE downloads
    /\ extracted' = IF args.cleanup THEN {} ELSE extracted
    /\ txt_files' = IF args.cleanup THEN NoFiles ELSE txt_files
    /\ log' = log \cup {CleanupLog}
    /\ pc' = "print_statistics"
    /\ UNCHANGED <<args, config, index_data, urls, loaded, st, calls, body, sub, res,
                   stats, resume_exists, resume_file, artifacts, exit_status,
                   interrupted,
                   domains, reports, attempts, outcome, skipped>>

\* print_statistics, "Collection completed successfully", return: exit 0
Finish ==
    /\ pc = "print_statistics"
    /\ log' = log \cup {"completed"}
    /\ pc' = "exited"
    /\ exit_status' = "0"
    /\ UNCHANGED <<args, config, index_data, urls, loaded, st, calls, body, sub, res,
                   stats, resume_exists, resume_file, downloads, temp_dir,
                   artifacts, extracted, interrupted,
                   txt_files, domains, reports, attempts, outcome, skipped>>

----------------------------------------------------------------------------
(* Interruption and the handlers of run *)

\* positions inside the try block of run, outside the executor's with block
TryPcs == {"download_index", "extract_urls", "check_urls", "extract_archives",
           "process_domains", "generate_reports", "compress_output", "cleanup",
           "print_statistics"}

\* positions inside the with block of download_datasets
PoolPcs == {"submit", "results"}

\* positions of run that no `except KeyboardInterrupt` covers
UncoveredPcs == {"banner", "exc_handler"}

\* an interrupt that reaches the handler without leaving the with block
InterruptSkipsShutdown(p) ==
    IF p \in PoolPcs \cup TryPcs THEN "kbd_handler" ELSE "exited"

\* where a KeyboardInterrupt raised at position p takes the main thread
InterruptTarget(p) ==
    IF p \in PoolPcs THEN "pool_shutdown"
    ELSE IF p \in TryPcs THEN "kbd_handler"
    ELSE "exited"

\* SIGINT: KeyboardInterrupt is raised in the main thread.  Raised outside
\* the try block it is not caught and ends the process ("sigint": non-zero).
Interrupt ==
    /\ ~interrupted
    /\ pc \in TryPcs \cup PoolPcs \cup UncoveredPcs
    /\ interrupted' = TRUE
    /\ pc' = InterruptTarget(pc)
    /\ exit_status' = IF InterruptTarget(pc) = "exited" THEN "sigint" ELSE exit_status
    /\ UNCHANGED <<args, config, index_data, urls, loaded, st, calls, body, sub, res,
                   stats, resume_exists, resume_file, downloads, temp_dir, log,
                   artifacts, extracted,
                   txt_files, domains, reports, attempts, outcome, skipped>>

\* a shutdown that does not wait for the workers
ShutdownNoWait == TRUE

\* shutdown(wait=True): every submitted task has run to its end
ShutdownWaits == \A i \in 1..sub : Finished(i)

\* the exception leaves the with block: executor.__exit__ calls
\* shutdown(wait=True), which returns when the work queue has been drained
PoolShutdown ==
    /\ pc = "pool_shutdown"
    /\ ShutdownWaits
    /\ pc' = "kbd_handler"
    /\ UNCHANGED <<args, config, index_data, urls, loaded, st, calls, body, sub, res,
                   stats, resume_exists, resume_file, downloads, temp_dir, log,
                   artifacts, extracted, exit_status, interrupted,
                   txt_files, domains, reports, attempts, outcome, skipped>>

\* except KeyboardInterrupt: warning, cleanup(), sys.exit(1)
KbdHandler ==
    /\ pc = "kbd_handler"
    /\ temp_dir' = CleanupDir(temp_dir)
    /\ downloads' = IF args.cleanup THEN [n \in Filenames |-> "none"] ELSE downloads
    /\ extracted' = IF args.cleanup THEN {} ELSE extracted
    /\ txt_files' = IF args.cleanup THEN NoFiles ELSE txt_files
    /\ log' = log \cup {"interrupted_by_user", CleanupLog}
    /\ pc' = "exited"
    /\ exit_status' = "1"
    /\ UNCHANGED <<args, config, index_data, urls, loaded, st, calls, body, sub, res,
                   stats, resume_exists, resume_file, artifacts, interrupted,
                   domains, reports, attempts, outcome, skipped>>

\* except Exception: error, traceback, sys.exit(1)
ExcHandler ==
    /\ pc = "exc_handler"
    /\ log' = log \cup {"collection_failed"}
    /\ pc' = "exited"
    /\ exit_status' = "1"
    /\ UNCHANGED <<args, config, index_data, urls, loaded, st, calls, body, sub, res,
                   stats, resume_exists, resume_file, downloads, temp_dir,
                   artifacts, extracted, interrupted,
                   txt_files, domains, reports, attempts, outcome, skipped>>

----------------------------------------------------------------------------

Next ==
    \/ Banner
    \/ DownloadIndexDryRun
    \/ DownloadIndexOk
    \/ DownloadIndexFail
    \/ ExtractUrls
    \/ NoUrls
    \/ DownloadDatasets
    \/ Submit
    \/ Result
    \/ DownloadsCompleted
    \/ \E i \in 1..Len(st) : StartDownload(i)
    \/ \E i \in 1..Len(st) : ResponseOk(i)
    \/ \E i \in 1..Len(st) : RequestFail(i)
    \/ \E i \in 1..Len(st) : StreamDone(i)
    \/ \E i \in 1..Len(st) : StreamFail(i)
    \/ \E i \in 1..Len(st) : LedgerOpen(i)
    \/ \E i \in 1..Len(st) : LedgerWrite(i)
    \/ ExtractArchives
    \/ ProcessDomains
    \/ Cleanup
    \/ Finish
    \/ Interrupt
    \/ PoolShutdown
    \/ KbdHandler
    \/ ExcHandler

Spec == Init /\ [][Next]_vars

----------------------------------------------------------------------------
(* The download stage of a run, request by request *)

\* a run without --resume and --dry-run; the configuration file of the user
\* sets max_retries
InitFetch ==
    /\ args = [resume |-> FALSE, cleanup |-> TRUE, dry_run |-> FALSE,
               validate |-> TRUE, compress |-> TRUE]
    /\ config \in [parallel_downloads : 1..MaxParallel, max_retries : 0..MaxRetries]
    /\ pc = "banner"
    /\ index_data = <<>>
    /\ urls = <<>>
    /\ loaded = {}
    /\ st = <<>>
    /\ calls = <<>>
    /\ body = <<>>
    /\ sub = 0
    /\ res = 0
    /\ stats = [total_urls |-> 0, downloaded |-> 0, failed |-> 0,
                extracted |-> 0, total_domains |-> 0, duplicates_removed |-> 0]
    /\ resume_exists = FALSE
    /\ resume_file = <<>>
    /\ downloads = FreshDir
    /\ temp_dir = TRUE
    /\ log = {}
    /\ artifacts = {"log"}
    /\ extracted = {}
    /\ exit_status = "none"
    /\ interrupted = FALSE
    /\ txt_files = NoFiles
    /\ domains = {}
    /\ reports = NoReports
    /\ attempts = <<>>
    /\ outcome = <<>>
    /\ skipped = {}

\* the run up to the end of download_datasets, not interrupted
NextFetch ==
    \/ Banner
    \/ DownloadIndexOk
    \/ ExtractUrls
    \/ NoUrls
    \/ DownloadDatasets
    \/ Submit
    \/ Result
    \/ DownloadsCompleted
    \/ \E i \in 1..Len(st) : StartDownload(i)
    \/ \E i \in 1..Len(st) : ResponseOk(i)
    \/ \E i \in 1..Len(st) : AttemptFails(i)
    \/ \E i \in 1..Len(st) : RetryRequest(i)
    \/ \E i \in 1..Len(st) : GiveUp(i)
    \/ \E i \in 1..Len(st) : StreamDone(i)
    \/ \E i \in 1..Len(st) : StreamFail(i)
    \/ \E i \in 1..Len(st) : LedgerOpen(i)
    \/ \E i \in 1..Len(st) : LedgerWrite(i)

SpecFetch == InitFetch /\ [][NextFetch]_vars


\* the domains the set given to generate_reports is made of
DomainPool == {FooCom, <<"bar", DOT, "foo", DOT, "com">>,
               <<"foo", DOT, "org">>, <<"bar", DOT, "org">>}

InitReports ==
    /\ args \in ArgNamespaces
    /\ config \in [parallel_downloads : 1..MaxParallel,
                   max_retries : {DefaultMaxRetries}]
    /\ pc = "generate_reports"
    /\ domains \in {S \in SUBSET DomainPool : Cardinality(S) \in 1..MaxDomains}
    /\ index_data = <<>>
    /\ urls = <<>>
    /\ loaded = {}
    /\ st = <<>>
    /\ calls = <<>>
    /\ body = <<>>
    /\ sub = 0
    /\ res = 0
    /\ stats = [total_urls |-> 0, downloaded |-> 0, failed |-> 0,
                extracted |-> 0, total_domains |-> Cardinality(domains),
                duplicates_removed |-> 0]
    /\ resume_exists = FALSE
    /\ resume_file = <<>>
    /\ downloads = FreshDir
    /\ temp_dir = TRUE
    /\ log = {"processing_domains", "processed_count"}
    /\ artifacts = {"log"}
    /\ extracted = {}
    /\ exit_status = "none"
    /\ interrupted = FALSE
    /\ txt_files = NoFiles
    /\ reports = NoReports
    /\ attempts = <<>>
    /\ outcome = <<>>
    /\ skipped = {}

NextReports ==
    \/ GenerateReports
    \/ CompressOutput
    \/ ExcHandler

SpecReports == InitReports /\ [][NextReports]_vars

----------------------------------------------------------------------------
(* Properties *)

Tasks == 1..Len(st)

\* the log messages that mark the entry of a stage after the task list
StageTags == {"downloading_datasets", "downloads_completed", "extracting",
              "processing_domains", "generating_reports", "compressing"}

\* C1: the ledger changes only by the append of the URL of a task whose call
\* has written its complete body, in the step that makes the call succeed;
\* a step in which a download fails leaves the ledger as it was, and the
\* failing call has never been inside the append.
C1_LedgerOnlyAfterCompleteBody ==
    [][ /\ resume_file' # resume_file =>
            \E i \in Tasks :
                /\ body[i] = "complete"
                /\ st[i] # "ok" /\ st'[i] = "ok"
                /\ resume_file' = resume_file \o urls[i] \o <<NL>>
        /\ \A i \in Tasks :
              (Len(st') = Len(st) /\ st[i] # "failed" /\ st'[i] = "failed") =>
                  /\ resume_file' = resume_file
                  /\ st[i] \notin {"ledger", "ok"}
        /\ \A i \in Tasks :
              (Len(st') = Len(st) /\ st[i] \in {"ok", "failed"}) => st'[i] = st[i]
      ]_vars

\* one download has been recorded after its body was written, another one
\* has failed part-way through its body
C1_Witness ==
    \E i, j \in Tasks :
        /\ st[i] = "ok" /\ body[i] = "complete"
        /\ st[j] = "failed" /\ body[j] = "partial"

\* the URLs marked complete in a ledger file: its lines, trimmed
RECURSIVE TrimmedLines(_, _)
TrimmedLines(f, cur) ==
    IF f = <<>> THEN (IF cur = <<>> THEN {} ELSE {Strip(cur)})
    ELSE IF Head(f) = NL THEN {Strip(cur)} \cup TrimmedLines(Tail(f), <<>>)
         ELSE TrimmedLines(Tail(f), Append(cur, Head(f)))

\* the sequence us without the elements of the set S, order kept
RECURSIVE Without(_, _)
Without(us, S) ==
    IF us = <<>> THEN <<>>
    ELSE IF Head(us) \in S THEN Without(Tail(us), S)
         ELSE <<Head(us)>> \o Without(Tail(us), S)

\* the URL of the index entry k, or the empty string when there is none
EntryUrl(k) == IF index_data[k].has THEN index_data[k].URL ELSE <<>>

\* C2: with resume enabled, extract_urls returns the non-empty index URLs in
\* index order without those of the loaded ledger, and no task whose
\* download_file was started has a URL of the loaded ledger.
C2_ResumeFiltering ==
    [][ /\ (args.resume /\ pc = "extract_urls" /\ pc' = "check_urls") =>
            LET ledger == IF resume_exists
                          THEN TrimmedLines(resume_file, <<>>) ELSE {}
                nonempty == Without([k \in 1..Len(index_data) |-> EntryUrl(k)],
                                    {<<>>})
            IN /\ urls' = Without(nonempty, ledger)
               /\ loaded' = ledger
        /\ args.resume =>
              \A i \in 1..Len(calls') : calls'[i] > 0 => urls'[i] \notin loaded'
      ]_vars

\* every index URL but the last is in the loaded ledger, and the one task
\* left is being downloaded
C2_Witness ==
    /\ args.resume
    /\ loaded # {}
    /\ Len(index_data) >= 2
    /\ \A k \in 1..(Len(index_data) - 1) : EntryUrl(k) \in loaded
    /\ urls = <<EntryUrl(Len(index_data))>>
    /\ Len(calls) = 1 /\ calls[1] = 1

\* C3: when download_datasets has returned, stats.downloaded + stats.failed
\* is the number of tasks submitted to the pool.
C3_BatchCountsAddUp ==
    "downloads_completed" \in log =>
        /\ stats.downloaded + stats.failed = sub
        /\ sub = Len(urls)

\* download_datasets has returned from a batch with a success and a failure
C3_Witness ==
    /\ "downloads_completed" \in log
    /\ stats.downloaded >= 1
    /\ stats.failed >= 1

\* C4: no task is started twice, and when the download stage of a run has
\* completed, or the run has ended without an interruption, download_file
\* was started exactly once for every task of the list.
C4_EveryTaskAttemptedOnce ==
    /\ \A i \in 1..Len(calls) : calls[i] <= 1
    /\ ("downloads_completed" \in log
            \/ (pc = "exited" /\ ~interrupted /\ urls # <<>>)) =>
          /\ Len(calls) = Len(urls)
          /\ \A i \in 1..Len(urls) : calls[i] = 1

\* the first task failed and the task after it was attempted all the same
C4_Witness ==
    /\ pc = "exited" /\ ~interrupted
    /\ Len(urls) >= 2
    /\ st[1] = "failed"
    /\ calls[2] = 1 /\ st[2] = "ok"

\* C5: the number of download_file calls started and not yet returned never
\* exceeds config['parallel_downloads'].
C5_ConcurrencyBounded ==
    Cardinality({i \in 1..Len(calls) : calls[i] > 0 /\ st[i] \notin {"ok", "failed"}})
        <= config.parallel_downloads

\* the pool is full and a submitted task waits in the queue
C5_Witness ==
    /\ Cardinality({i \in Tasks : st[i] \in {"request", "streaming", "written", "ledger"}})
          = config.parallel_downloads
    /\ \E i \in Tasks : st[i] = "queued"

\* C6: at most one worker is between the open and the close of the append
\* to the ledger file.
C6_LedgerAppendsSerialized ==
    Cardinality({i \in Tasks : st[i] = "ledger"}) <= 1

\* C7: a run that was interrupted ends with a non-zero status after cleanup
\* has run, the working directory being removed when cleanup is enabled.
C7_InterruptCleansUpAndFails ==
    (interrupted /\ pc = "exited") =>
        /\ exit_status # "0"
        /\ CleanupLog \in log
        /\ args.cleanup => ~temp_dir

\* C8: once the interrupt has been received, no further download_file call
\* is started.
C8_NoStartAfterInterrupt ==
    [][interrupted => calls' = calls]_vars

\* C9: a run whose index download failed ends without any later stage, with
\* cleanup done and a non-zero status.
C9_IndexFailureCleansUp ==
    ("index_failed" \in log /\ pc = "exited") =>
        /\ log \cap (StageTags \cup {"found_urls"}) = {}
        /\ exit_status # "0"
        /\ CleanupLog \in log
        /\ args.cleanup => ~temp_dir

\* C10: once extract_urls has returned an empty task list, a run that is not
\* interrupted warns, enters no later stage, writes nothing but the log to
\* the output directory and exits with status 0.
C10_EmptyTaskListIsNoOp ==
    ("found_urls" \in log /\ urls = <<>> /\ pc # "check_urls" /\ ~interrupted) =>
        /\ pc = "exited"
        /\ exit_status = "0"
        /\ "no_urls" \in log
        /\ log \cap StageTags = {}
        /\ artifacts = {"log"}
        /\ \A n \in Filenames : downloads[n] = "none"

\* every index URL was in the ledger: the run ended as a no-op
C10_Witness ==
    /\ pc = "exited"
    /\ "no_urls" \in log
    /\ args.resume
    /\ stats.total_urls > 0
    /\ urls = <<>>

\* C11: in dry-run mode no index request and no dataset download is made,
\* no extraction and no aggregation is run, and the run leaves the ledger
\* as it found it and writes nothing but the log to the output directory.
C11_DryRunTouchesNothing ==
    [][ args.dry_run =>
          /\ log' \cap {"index_downloaded", "index_failed"} = {}
          /\ \A i \in 1..Len(calls') : calls'[i] = 0
          /\ log' \cap {"extracting", "processing_domains",
                        "generating_reports", "compressing"} = {}
          /\ resume_file' = resume_file
          /\ resume_exists' = resume_exists
          /\ artifacts' = {"log"}
      ]_vars

\* a dry run has ended, with a ledger of earlier runs in place
C11_Witness ==
    /\ args.dry_run
    /\ pc = "exited"
    /\ exit_status = "0"
    /\ "dry_run_index" \in log
    /\ resume_exists /\ resume_file # <<>>

\* the index lists a.zip and b.zip, both are downloaded, a.zip holds a text
\* file with the line foo.com and b.zip is no zip archive
C12_Scenario ==
    /\ args.validate
    /\ Len(index_data) = 2
    /\ urls = <<U1, U2>>
    /\ extracted = {Filename(U1)}
    /\ txt_files[Filename(U1)] = <<Append(FooCom, NL)>>
    /\ skipped = {Filename(U2)}
    /\ downloads[Filename(U2)] = "complete"

\* C12: with validation enabled, a run over [a.zip, b.zip] where a.zip holds
\* the line foo.com and b.zip is corrupted has, once its stages are done, a
\* main domain file of exactly foo.com, a TLD distribution of the one row
\* (1, com), the wildcard pattern *.foo.com and a summary that counts one
\* extracted archive.
C12_EndToEndExample ==
    (pc = "cleanup" /\ C12_Scenario) =>
        /\ ReportFiles \subseteq artifacts
        /\ reports.main = <<FooCom>>
        /\ reports.tld = << <<1, <<"com">>>> >>
        /\ reports.wildcard = << <<"*", DOT>> \o FooCom >>
        /\ Len(reports.summary) = 1
        /\ reports.summary[1].archives_extracted = 1

\* C13: extract_archives tries every zip file of the download directory,
\* skips each one that fails with a warning, goes on to the next stage, and
\* adds to stats.extracted exactly the number of archives that extracted.
C13_ExtractionSkipsBadArchives ==
    [][ (pc = "extract_archives" /\ pc' # pc /\ ~interrupted') =>
          /\ pc' = "process_domains"
          /\ extracted' \cup skipped' = ZipFiles
          /\ extracted' \cap skipped' = {}
          /\ skipped' # {} => "extract_failed" \in log'
          /\ stats'.extracted = stats.extracted + Cardinality(extracted')
      ]_vars

\* of two archives one was extracted and one skipped
C13_Witness ==
    /\ pc = "process_domains"
    /\ Cardinality(extracted) = 1
    /\ Cardinality(skipped) = 1
    /\ stats.extracted = 1
    /\ "extract_failed" \in log

\* C14, as stated: extraction is not run when no download succeeded,
\* aggregation is not run when no archive was extracted, and reports and
\* compression are not run when the aggregated set is empty.
C14_StagesNeedInput ==
    /\ "extracting" \in log => stats.downloaded > 0
    /\ "processing_domains" \in log => stats.extracted > 0
    /\ (pc \in {"generate_reports", "compress_output"}
          \/ artifacts \cap ReportFiles # {}) => domains # {}

\* C14, amended: once the download stage has run, extraction and
\* aggregation are run whatever the stage before them produced; only report
\* generation and compression are left out, when the aggregated set is empty.
C14_OnlyReportsNeedInput ==
    /\ (pc \in {"generate_reports", "compress_output"}
          \/ artifacts \cap ReportFiles # {}) => domains # {}
    /\ (pc = "cleanup" /\ "downloads_completed" \in log) =>
          {"extracting", "processing_domains"} \subseteq log

\* every download failed, extraction and aggregation ran on nothing, and
\* the run went past the reports to cleanup
C14_Witness ==
    /\ pc = "cleanup"
    /\ stats.downloaded = 0
    /\ stats.failed > 0
    /\ stats.extracted = 0
    /\ {"extracting", "processing_domains"} \subseteq log
    /\ domains = {}
    /\ artifacts = {"log"}

\* the place of a position of run in the order of the pipeline states
StageRank(p) ==
    CASE p \in {"banner", "download_index"} -> 0
      [] p = "extract_urls" -> 1
      [] p \in {"check_urls", "submit", "results"} -> 2
      [] p = "extract_archives" -> 3
      [] p = "process_domains" -> 4
      [] p = "generate_reports" -> 5
      [] p = "compress_output" -> 6
      [] p = "cleanup" -> 7
      [] p = "print_statistics" -> 8
      [] p \in {"pool_shutdown", "kbd_handler", "exc_handler"} -> 9
      [] p = "exited" -> 10

C16_TempDirRemovedAtExit ==
    (args.cleanup /\ pc = "exited") => ~temp_dir

\* the lines of the extracted text files, file after file
AllLines ==
    LET names == CHOOSE s \in Orders(DOMAIN txt_files) : TRUE
    IN Concat([k \in 1..Len(names) |-> txt_files[names[k]]])

\* the positions of AllLines whose line validation accepts
AcceptedAt == {i \in 1..Len(AllLines) : is_valid_domain(Strip(AllLines[i]))}

\* C17: after process_domains, stats.duplicates_removed is the number of
\* accepted lines of all text files minus the size of the returned set, and
\* it is positive when an accepted line occurs more than once.
C17_DuplicatesCounted ==
    (pc = "cleanup" /\ "processed_count" \in log) =>
        /\ stats.duplicates_removed = Cardinality(AcceptedAt) - Cardinality(domains)
        /\ (\E i, j \in AcceptedAt : i # j /\ Strip(AllLines[i]) = Strip(AllLines[j]))
              => stats.duplicates_removed > 0

\* C18: the set process_domains returns is the set of the accepted lines of
\* the extracted text files, whatever their number of occurrences and the
\* order the files are visited in.
C18_AggregateIsAcceptedLines ==
    (pc = "cleanup" /\ "processed_count" \in log) =>
        domains = {Strip(AllLines[i]) : i \in AcceptedAt}

RetryableOutcomes == {"429", "500", "502", "503", "504", "connection",
                      "413 Retry-After"}

\* what holds of the requests of a download whatever the limit is: a request
\* is sent again only after a retryable outcome, a call whose last request
\* failed for good ends as a failure, and when the batch is over every task
\* was called once and every failure is counted in stats.failed
RetryDiscipline ==
    /\ \A i \in 1..Len(st) :
          /\ (Len(attempts') = Len(attempts) /\ attempts[i] >= 1
                /\ attempts'[i] > attempts[i]) =>
                (st[i] = "attempt_failed" /\ outcome[i] \in RetryableOutcomes)
          /\ (st[i] = "attempt_failed" /\ st'[i] # st[i]
                /\ (outcome[i] \notin RetryableOutcomes
                      \/ attempts[i] > config.max_retries)) =>
                st'[i] = "failed"
    /\ pc' = "extract_archives" =>
          /\ \A i \in 1..Len(st') : calls'[i] = 1 /\ st'[i] \in {"ok", "failed"}
          /\ stats'.failed = Cardinality({i \in 1..Len(st') : st'[i] = "failed"})

\* C20, as stated: a download sends at most max_retries requests (for a
\* limit of one or more), retries
\* only after a retryable outcome, and ends as a counted failure when the
\* limit is reached.
C20_AtMostMaxRetriesAttempts ==
    [][ /\ config.max_retries >= 1 =>
              \A i \in 1..Len(attempts') : attempts'[i] <= config.max_retries
        /\ RetryDiscipline ]_vars

\* C20, amended: a download sends at most max_retries + 1 requests, the
\* first one and max_retries retries.
C20_AtMostMaxRetriesRetries ==
    [][ /\ \A i \in 1..Len(attempts') : attempts'[i] <= config.max_retries + 1
        /\ RetryDiscipline ]_vars

\* a download was given up after its last retry and counted as failed, and
\* another task of the batch was downloaded
C20_Witness ==
    /\ pc = "extract_archives"
    /\ config.max_retries >= 1
    /\ \E i, j \in 1..Len(st) :
          /\ st[i] = "failed"
          /\ attempts[i] = config.max_retries + 1
          /\ st[j] = "ok"
    /\ stats.failed = 1
    /\ stats.downloaded = 1

\* C21: no two tasks of a batch have the same destination path, and no two
\* download_file calls write the same file of the download directory.
C21_DestinationsUnique ==
    /\ \A i, j \in 1..Len(urls) :
          i # j => Filename(urls[i]) # Filename(urls[j])
    /\ \A i, j \in Tasks :
          (i # j /\ body[i] # "none" /\ body[j] # "none") =>
              Filename(urls[i]) # Filename(urls[j])

\* the positions of run from extraction on, and the interrupt handler
AfterDownloadPcs == {"extract_archives", "process_domains", "generate_reports",
                     "compress_output", "cleanup", "print_statistics",
                     "kbd_handler"}

C23_StatsByOrchestratorOnly ==
    [][ /\ (Len(st') = Len(st) /\ st' # st) => stats' = stats
        /\ (stats'.downloaded # stats.downloaded \/ stats'.failed # stats.failed) =>
              /\ pc = "results"
              /\ res' = res + 1
              /\ Finished(res')
              /\ IF st[res'] = "ok"
                 THEN /\ stats'.downloaded = stats.downloaded + 1
                      /\ stats'.failed = stats.failed
                 ELSE /\ stats'.downloaded = stats.downloaded
                      /\ stats'.failed = stats.failed + 1
        /\ stats'.downloaded + stats'.failed = res'
      ]_vars

\* two workers ran side by side, one download succeeded and one failed, and
\* both were counted
C23_Witness ==
    /\ pc = "extract_archives"
    /\ config.parallel_downloads >= 2
    /\ Len(st) = 2
    /\ st[1] = "failed" /\ st[2] = "ok"
    /\ stats.downloaded = 1
    /\ stats.failed = 1

\* C24: the archives a run extracts are files its own download_file calls
\* wrote completely; a URL left out by resume filtering has no file in the
\* working directory and no extracted archive; the text files read are those
\* of the extracted archives, and every collected domain is a line of them.
C24_OnlyThisRunsArchives ==
    /\ \A n \in extracted :
          \E i \in Tasks : Filename(urls[i]) = n /\ body[i] = "complete"
    /\ \A k \in 1..Len(index_data) :
          (args.resume /\ EntryUrl(k) \in loaded) =>
              /\ Filename(EntryUrl(k)) \notin extracted
              /\ downloads[Filename(EntryUrl(k))] = "none"
    /\ DOMAIN txt_files = extracted
    /\ domains \subseteq {Strip(AllLines[i]) : i \in 1..Len(AllLines)}

\* a resumed run left out a.zip, downloaded and extracted b.zip with its
\* line, and is about to clean up
C24_Witness ==
    /\ args.resume
    /\ U1 \in loaded
    /\ Len(index_data) = 2
    /\ EntryUrl(1) = U1 /\ EntryUrl(2) = U2
    /\ urls = <<U2>>
    /\ pc = "cleanup"
    /\ extracted = {Filename(U2)}
    /\ txt_files[Filename(U2)] # <<>>

====
